---- MODULE Spec2Model ----
(***************************************************************************)
(* The archival state machine of iswyd: the message-record model           *)
(* (archived_message.rs), the gateway event handlers (archiver.rs) and the *)
(* document store they read and write (a MongoDB collection, modelled as   *)
(* the list of its documents in natural order).                            *)
(***************************************************************************)
EXTENDS Integers, Sequences, FiniteSets, TLC

(* ------------------------------ bounds -------------------------------- *)

\* number of gateway events dispatched in one behaviour
MaxEvents == 3
\* the wall clock runs from 0 to MaxTime (in clock ticks)
MaxTime == 1
\* clock ticks per millisecond: Utc::now() is finer than the stored precision
TicksPerMilli == 2

(* --------------------------- Option / values -------------------------- *)

None == <<>>

Some(x) == <<x>>

is_some(o) == o # <<>>

unwrap(o) == o[1]

unwrap_or_default(o) == IF is_some(o) THEN o[1] ELSE <<>>

\* content: Option<String>; String::default() is the empty string
unwrap_or_default_str(o) == IF is_some(o) THEN o[1] ELSE ""

(* ------------------------------ timestamps ---------------------------- *)

\* convert_ts: a platform timestamp cut to whole milliseconds
convert_ts(ts) == (ts \div TicksPerMilli) * TicksPerMilli

\* chrono::serde::ts_milliseconds, serialize: epoch milliseconds as an i64
ts_milliseconds_ser(t) == <<"i64", t \div TicksPerMilli>>

\* chrono::serde::ts_milliseconds, deserialize
ts_milliseconds_de(v) == v[2] * TicksPerMilli

\* chrono::serde::ts_milliseconds_option
ts_milliseconds_option_ser(o) ==
    IF is_some(o) THEN ts_milliseconds_ser(unwrap(o)) ELSE <<"null">>

ts_milliseconds_option_de(v) ==
    IF v[1] = "null" THEN None ELSE Some(ts_milliseconds_de(v))

\* Option<DateTime<Utc>> without a `with` attribute: chrono's own serde, an
\* RFC 3339 string that keeps the full precision
rfc3339_option_ser(o) == IF is_some(o) THEN <<"str", unwrap(o)>> ELSE <<"null">>

rfc3339_option_de(v) == IF v[1] = "null" THEN None ELSE Some(v[2])

\* MessageId::to_string(), also how the id field of a record is serialised
id_to_string(id) == <<"str", id>>

id_from_string(v) == v[2]

(* ------------------------- ArchivedMessageType ------------------------ *)

\* the message types the conversion names (GroupIconUpdate is not one)
ConvertedKinds ==
    {"Regular", "GroupRecipientAddition", "GroupRecipientRemoval",
     "GroupCallCreation", "GroupNameUpdate", "PinsAdd", "MemberJoin",
     "NitroBoost", "NitroTier1", "NitroTier2", "NitroTier3",
     "ChannelFollowAdd", "GuildDiscoveryDisqualified",
     "GuildDiscoveryRequalified", "GuildDiscoveryGracePeriodInitialWarning",
     "GuildDiscoveryGracePeriodFinalWarning", "ThreadCreated", "InlineReply",
     "ChatInputCommand", "ThreadStarterMessage", "GuildInviteReminder",
     "ContextMenuCommand", "AutoModerationAction"}

\* the members of enum ArchivedMessageType
ArchivedMessageType == ConvertedKinds \cup {"GroupIconUpdate", "Unknown"}

\* impl From<MessageType> for ArchivedMessageType
ArchivedMessageType_from(value) ==
    IF value \in ConvertedKinds THEN value ELSE "Unknown"

(* ------------------------------ records -------------------------------- *)

DeletedVariants == {"FullDeleted", "IncompleteDeleted", "UnknownDeleted"}

IterationVariants == {"Full", "FullDeleted", "Incomplete", "IncompleteDeleted"}

\* from_gateway as it would be if it flagged every iteration as a possible gap
iteration_from_gateway_flagging_gap(update, timestamp, session) ==
    [timestamp |-> timestamp,
     may_contain_gap |-> TRUE,
     session_id |-> session,
     content |-> unwrap_or_default_str(update.content),
     attachments |-> unwrap_or_default(update.attachments),
     embeds |-> unwrap_or_default(update.embeds),
     components |-> unwrap_or_default(update.components),
     sticker_items |-> unwrap_or_default(update.sticker_items)]

\* from_gateway as it would be if it stamped every iteration with the session
\* id of the first run
iteration_from_gateway_first_session(update, timestamp, session) ==
    [timestamp |-> timestamp,
     may_contain_gap |-> FALSE,
     session_id |-> 1,
     content |-> unwrap_or_default_str(update.content),
     attachments |-> unwrap_or_default(update.attachments),
     embeds |-> unwrap_or_default(update.embeds),
     components |-> unwrap_or_default(update.components),
     sticker_items |-> unwrap_or_default(update.sticker_items)]

\* ArchivedMessageIteration::from_gateway
ArchivedMessageIteration_from_gateway(update, timestamp, session) ==
    [timestamp |-> timestamp,
     may_contain_gap |-> FALSE,
     session_id |-> session,
     content |-> unwrap_or_default_str(update.content),
     attachments |-> unwrap_or_default(update.attachments),
     embeds |-> unwrap_or_default(update.embeds),
     components |-> unwrap_or_default(update.components),
     sticker_items |-> unwrap_or_default(update.sticker_items)]

\* from_gateway as it would be if the founding iteration were not stamped
\* with the message's timestamp but left at the epoch
full_from_gateway_at_epoch(message, session) ==
    [variant |-> "Full",
     id |-> message.id,
     channel_id |-> message.channel_id,
     guild_id |-> message.guild_id,
     author_id |-> message.author,
     timestamp |-> convert_ts(message.timestamp),
     kind |-> ArchivedMessageType_from(message.kind),
     message_reference |-> message.message_reference,
     webhook_id |-> message.webhook_id,
     application_id |-> message.application_id,
     interaction |-> message.interaction,
     iterations |-> << [timestamp |-> 0,
                        may_contain_gap |-> FALSE,
                        session_id |-> session,
                        content |-> message.content,
                        attachments |-> message.attachments,
                        embeds |-> message.embeds,
                        components |-> message.components,
                        sticker_items |-> message.sticker_items] >>,
     marked_as_edited |-> FALSE]

\* ArchivedMessageFull::from_gateway
ArchivedMessageFull_from_gateway(message, session) ==
    [variant |-> "Full",
     id |-> message.id,
     channel_id |-> message.channel_id,
     guild_id |-> message.guild_id,
     author_id |-> message.author,
     timestamp |-> convert_ts(message.timestamp),
     kind |-> ArchivedMessageType_from(message.kind),
     message_reference |-> message.message_reference,
     webhook_id |-> message.webhook_id,
     application_id |-> message.application_id,
     interaction |-> message.interaction,
     iterations |-> << [timestamp |-> convert_ts(message.timestamp),
                        may_contain_gap |-> FALSE,
                        session_id |-> session,
                        content |-> message.content,
                        attachments |-> message.attachments,
                        embeds |-> message.embeds,
                        components |-> message.components,
                        sticker_items |-> message.sticker_items] >>,
     marked_as_edited |-> FALSE]

\* into_deleted as it would be with the deletion timestamp left unset
into_deleted_without_timestamp(self, timestamp) ==
    [variant |-> "FullDeleted",
     id |-> self.id,
     channel_id |-> self.channel_id,
     guild_id |-> self.guild_id,
     author_id |-> self.author_id,
     timestamp |-> self.timestamp,
     kind |-> self.kind,
     message_reference |-> self.message_reference,
     webhook_id |-> self.webhook_id,
     application_id |-> self.application_id,
     interaction |-> self.interaction,
     iterations |-> self.iterations,
     marked_as_edited |-> self.marked_as_edited,
     deleted_timestamp |-> None]

\* ArchivedMessageFull::into_deleted
ArchivedMessageFull_into_deleted(self, timestamp) ==
    [variant |-> "FullDeleted",
     id |-> self.id,
     channel_id |-> self.channel_id,
     guild_id |-> self.guild_id,
     author_id |-> self.author_id,
     timestamp |-> self.timestamp,
     kind |-> self.kind,
     message_reference |-> self.message_reference,
     webhook_id |-> self.webhook_id,
     application_id |-> self.application_id,
     interaction |-> self.interaction,
     iterations |-> self.iterations,
     marked_as_edited |-> self.marked_as_edited,
     deleted_timestamp |-> timestamp]

\* from_gateway as it would be if the founding iteration were left out
incomplete_from_gateway_empty_log(update, timestamp, session) ==
    IF ~is_some(update.author) THEN [err |-> "NoAuthor"]
    ELSE IF ~is_some(update.timestamp) THEN [err |-> "NoTimestamp"]
    ELSE [ok |->
            [variant |-> "Incomplete",
             id |-> update.id,
             channel_id |-> update.channel_id,
             guild_id |-> update.guild_id,
             author_id |-> unwrap(update.author),
             timestamp |-> convert_ts(unwrap(update.timestamp)),
             iterations |-> << >>,
             marked_as_edited |-> is_some(update.edited_timestamp)]]

\* ArchivedMessageIncomplete::from_gateway: Ok(record) or Err(reason)
ArchivedMessageIncomplete_from_gateway(update, timestamp, session) ==
    IF ~is_some(update.author) THEN [err |-> "NoAuthor"]
    ELSE IF ~is_some(update.timestamp) THEN [err |-> "NoTimestamp"]
    ELSE [ok |->
            [variant |-> "Incomplete",
             id |-> update.id,
             channel_id |-> update.channel_id,
             guild_id |-> update.guild_id,
             author_id |-> unwrap(update.author),
             timestamp |-> convert_ts(unwrap(update.timestamp)),
             iterations |->
                << ArchivedMessageIteration_from_gateway(update, timestamp, session) >>,
             marked_as_edited |-> is_some(update.edited_timestamp)]]

\* ArchivedMessageIncomplete::into_deleted
ArchivedMessageIncomplete_into_deleted(self, timestamp) ==
    [variant |-> "IncompleteDeleted",
     id |-> self.id,
     channel_id |-> self.channel_id,
     guild_id |-> self.guild_id,
     author_id |-> self.author_id,
     timestamp |-> self.timestamp,
     iterations |-> self.iterations,
     marked_as_edited |-> self.marked_as_edited,
     deleted_timestamp |-> timestamp]

(* --------------------- persisted encoding (BSON) ---------------------- *)

\* serde of ArchivedMessageIteration: #[serde(with = "ts_milliseconds")]
iteration_to_bson(it) == [it EXCEPT !.timestamp = ts_milliseconds_ser(it.timestamp)]

iteration_from_bson(d) == [d EXCEPT !.timestamp = ts_milliseconds_de(d.timestamp)]

iterations_to_bson(its) == [i \in DOMAIN its |-> iteration_to_bson(its[i])]

iterations_from_bson(ds) == [i \in DOMAIN ds |-> iteration_from_bson(ds[i])]

\* the fields every variant of ArchivedMessage serialises
common_to_bson(m) ==
    [archive_type |-> m.variant,
     id |-> id_to_string(m.id),
     channel_id |-> m.channel_id,
     guild_id |-> m.guild_id]

\* the further fields of the Full and Incomplete families
tracked_to_bson(m) ==
    [author_id |-> m.author_id,
     timestamp |-> ts_milliseconds_ser(m.timestamp),
     iterations |-> iterations_to_bson(m.iterations),
     marked_as_edited |-> m.marked_as_edited]

\* the fields only the Full family has; kind is renamed to "type"
full_only_to_bson(m) ==
    [type |-> m.kind,
     message_reference |-> m.message_reference,
     webhook_id |-> m.webhook_id,
     application_id |-> m.application_id,
     interaction |-> m.interaction]

\* bson::to_bson(&ArchivedMessage): #[serde(tag = "archive_type")]
to_bson(m) ==
    CASE m.variant = "Full" ->
           common_to_bson(m) @@ tracked_to_bson(m) @@ full_only_to_bson(m)
      [] m.variant = "FullDeleted" ->
           common_to_bson(m) @@ tracked_to_bson(m) @@ full_only_to_bson(m)
           @@ [deleted_timestamp |-> ts_milliseconds_option_ser(m.deleted_timestamp)]
      [] m.variant = "Incomplete" ->
           common_to_bson(m) @@ tracked_to_bson(m)
      [] m.variant = "IncompleteDeleted" ->
           common_to_bson(m) @@ tracked_to_bson(m)
           @@ [deleted_timestamp |-> ts_milliseconds_option_ser(m.deleted_timestamp)]
      [] m.variant = "UnknownDeleted" ->
           common_to_bson(m)
           @@ [deleted_timestamp |-> rfc3339_option_ser(m.deleted_timestamp)]

CommonFields == {"archive_type", "id", "channel_id", "guild_id"}

TrackedFields == {"author_id", "timestamp", "iterations", "marked_as_edited"}

FullOnlyFields ==
    {"type", "message_reference", "webhook_id", "application_id", "interaction"}

\* the document fields each struct of the enum reads
VariantFields(variant) ==
    CASE variant = "Full" -> CommonFields \cup TrackedFields \cup FullOnlyFields
      [] variant = "FullDeleted" ->
           CommonFields \cup TrackedFields \cup FullOnlyFields \cup {"deleted_timestamp"}
      [] variant = "Incomplete" -> CommonFields \cup TrackedFields
      [] variant = "IncompleteDeleted" ->
           CommonFields \cup TrackedFields \cup {"deleted_timestamp"}
      [] variant = "UnknownDeleted" -> CommonFields \cup {"deleted_timestamp"}

\* whether the document deserialises into ArchivedMessage: the tagged struct's
\* fields are present (others are ignored) and have the type its serde expects
Decodable(d) ==
    /\ VariantFields(d.archive_type) \subseteq DOMAIN d
    /\ d.archive_type \in {"FullDeleted", "IncompleteDeleted"}
          => d.deleted_timestamp[1] \in {"i64", "null"}
    /\ d.archive_type = "UnknownDeleted" => d.deleted_timestamp[1] \in {"str", "null"}

\* deserialising a stored document into ArchivedMessage
from_bson(d) ==
    LET common == [variant |-> d.archive_type,
                   id |-> id_from_string(d.id),
                   channel_id |-> d.channel_id,
                   guild_id |-> d.guild_id]
        tracked == [author_id |-> d.author_id,
                    timestamp |-> ts_milliseconds_de(d.timestamp),
                    iterations |-> iterations_from_bson(d.iterations),
                    marked_as_edited |-> d.marked_as_edited]
        full_only == [kind |-> d.type,
                      message_reference |-> d.message_reference,
                      webhook_id |-> d.webhook_id,
                      application_id |-> d.application_id,
                      interaction |-> d.interaction]
    IN  CASE d.archive_type = "Full" -> common @@ tracked @@ full_only
          [] d.archive_type = "FullDeleted" ->
               common @@ tracked @@ full_only
               @@ [deleted_timestamp |-> ts_milliseconds_option_de(d.deleted_timestamp)]
          [] d.archive_type = "Incomplete" -> common @@ tracked
          [] d.archive_type = "IncompleteDeleted" ->
               common @@ tracked
               @@ [deleted_timestamp |-> ts_milliseconds_option_de(d.deleted_timestamp)]
          [] d.archive_type = "UnknownDeleted" ->
               common @@ [deleted_timestamp |-> rfc3339_option_de(d.deleted_timestamp)]

(* --------------------------- document store --------------------------- *)

\* the positions of the documents matching doc! { "id": id.to_string() }
Matching(docs, id) == {i \in DOMAIN docs : docs[i].id = id_to_string(id)}

\* the first match in natural order, 0 when there is none
FirstMatch(docs, id) ==
    IF Matching(docs, id) = {} THEN 0
    ELSE CHOOSE i \in Matching(docs, id) : \A j \in Matching(docs, id) : i <= j

\* Collection::find_one(filter, None) that returned Ok: the first match, decoded
find_one(docs, id) ==
    IF FirstMatch(docs, id) = 0 THEN None
    ELSE Some(from_bson(docs[FirstMatch(docs, id)]))

\* find_one can return Ok only when the matched document deserialises
find_one_decodes(docs, id) ==
    FirstMatch(docs, id) # 0 => Decodable(docs[FirstMatch(docs, id)])

\* Collection::insert_one: a new document; the collection has no unique index
\* on "id"
insert_one(docs, d) == Append(docs, d)

\* the update document { "$set": encoded } applied to a document: the listed
\* fields are set, every other field of the document is kept
apply_set(old, encoded) == encoded @@ old

\* Collection::update_one(filter, { "$set": encoded }, upsert(true)): the first
\* match is updated in place; without a match a document is inserted
update_one(docs, id, encoded) ==
    IF FirstMatch(docs, id) = 0
    THEN Append(docs, apply_set([id |-> id_to_string(id)], encoded))
    ELSE [docs EXCEPT ![FirstMatch(docs, id)] = apply_set(@, encoded)]

(* ----------------------- configuration and inputs --------------------- *)

\* Archiver.ignored_guilds and Archiver.ignored_channels of the running service
ignored_guilds == {11}

ignored_channels == {22}

MsgIds == {1, 2}

\* the session ids (Uuid::new_v4) of the service's successive runs
Sessions == {1, 2}

Handlers == {"h1", "h2"}

NoFacets ==
    [content |-> "hi", attachments |-> <<>>, embeds |-> <<>>,
     components |-> <<>>, sticker_items |-> <<>>]

AllFacets ==
    [content |-> "hi!", attachments |-> <<"file">>, embeds |-> <<"embed">>,
     components |-> <<"row">>, sticker_items |-> <<"sticker">>]

\* the gateway's Message values (MESSAGE_CREATE) for one message id
Messages(id) ==
    { [id |-> id, channel_id |-> 20, guild_id |-> None, author |-> 30,
       timestamp |-> 1, kind |-> "Regular", message_reference |-> None,
       webhook_id |-> None, application_id |-> None, interaction |-> None]
        @@ NoFacets,
      [id |-> id, channel_id |-> 21, guild_id |-> Some(10), author |-> 31,
       timestamp |-> 2, kind |-> "InlineReply", message_reference |-> Some("ref"),
       webhook_id |-> Some(40), application_id |-> Some(50),
       interaction |-> Some("slash")]
        @@ AllFacets,
      [id |-> id, channel_id |-> 20, guild_id |-> None, author |-> 30,
       timestamp |-> 1, kind |-> "GroupIconUpdate", message_reference |-> None,
       webhook_id |-> None, application_id |-> None, interaction |-> None]
        @@ NoFacets,
      [id |-> id, channel_id |-> 22, guild_id |-> None, author |-> 30,
       timestamp |-> 1, kind |-> "Regular", message_reference |-> None,
       webhook_id |-> None, application_id |-> None, interaction |-> None]
        @@ NoFacets,
      [id |-> id, channel_id |-> 20, guild_id |-> Some(11), author |-> 31,
       timestamp |-> 2, kind |-> "Regular", message_reference |-> None,
       webhook_id |-> None, application_id |-> None, interaction |-> None]
        @@ AllFacets }

\* the gateway's MessageUpdateEvent values (MESSAGE_UPDATE) for one message id:
\* a content edit, an embed-only update without author, timestamp or edit
\* timestamp, an update with author and timestamp but no edit timestamp, an
\* update without timestamp, and two updates from ignored places
MessageUpdateEvents(id) ==
    { [id |-> id, channel_id |-> 20, guild_id |-> None, author |-> Some(30),
       timestamp |-> Some(1), edited_timestamp |-> Some(3),
       content |-> Some("hi!"), attachments |-> Some(<<>>), embeds |-> Some(<<>>),
       components |-> Some(<<>>), sticker_items |-> Some(<<>>)],
      [id |-> id, channel_id |-> 20, guild_id |-> None, author |-> None,
       timestamp |-> None, edited_timestamp |-> None,
       content |-> None, attachments |-> None, embeds |-> Some(<<"embed">>),
       components |-> None, sticker_items |-> None],
      [id |-> id, channel_id |-> 21, guild_id |-> Some(10), author |-> Some(31),
       timestamp |-> Some(2), edited_timestamp |-> None,
       content |-> Some("hi"), attachments |-> Some(<<"file">>), embeds |-> None,
       components |-> Some(<<"row">>), sticker_items |-> Some(<<"sticker">>)],
      [id |-> id, channel_id |-> 20, guild_id |-> None, author |-> Some(30),
       timestamp |-> None, edited_timestamp |-> Some(3),
       content |-> Some("hi!"), attachments |-> None, embeds |-> None,
       components |-> None, sticker_items |-> None],
      [id |-> id, channel_id |-> 22, guild_id |-> Some(10), author |-> Some(30),
       timestamp |-> Some(1), edited_timestamp |-> Some(3),
       content |-> Some("hi!"), attachments |-> None, embeds |-> None,
       components |-> None, sticker_items |-> None],
      [id |-> id, channel_id |-> 21, guild_id |-> Some(11), author |-> Some(30),
       timestamp |-> Some(1), edited_timestamp |-> Some(3),
       content |-> Some("hi!"), attachments |-> None, embeds |-> None,
       components |-> None, sticker_items |-> None] }

\* message 1 receives every shape of event; message 2, which is there to show
\* what happens to the records of other ids, receives the plain ones
MessagesFor(id) ==
    IF id = 1 THEN Messages(id)
    ELSE {m \in Messages(id) : m.kind = "Regular" /\ m.guild_id = None}

MessageUpdateEventsFor(id) ==
    IF id = 1 THEN MessageUpdateEvents(id)
    ELSE {u \in MessageUpdateEvents(id) : u.guild_id = None /\ u.timestamp = Some(1)}

\* the (channel_id, guild_id) a MESSAGE_DELETE or MESSAGE_DELETE_BULK carries
DeletePlaces ==
    { [channel_id |-> 21, guild_id |-> Some(10)],
      [channel_id |-> 22, guild_id |-> None],
      [channel_id |-> 21, guild_id |-> Some(11)] }

BulkIds == { <<1>>, <<1, 2>> }

\* the Result of a store call or of bson::to_bson
Outcomes == {"Ok", "Err"}

(* -------------------------------- state ------------------------------- *)

VARIABLES
    store,        \* the documents of discor.messages, in natural order
    task,         \* per handler slot: idle, or the locals of a suspended handler
    now,          \* the wall clock, Utc::now()
    session_id,   \* Archiver.session_id of the running service
    dispatched,   \* number of events dispatched so far
    log           \* the lines the last step printed

vars == <<store, task, now, session_id, dispatched, log>>

Idle == [op |-> "idle"]

Init ==
    /\ store = <<>>
    /\ task = [h \in Handlers |-> Idle]
    /\ now = 0
    /\ session_id = 1
    /\ dispatched = 0
    /\ log = <<>>

\* serenity runs each handler call as a task of its own; the slot a call takes
\* has no meaning, so a call takes h2 only while h1 is taken
FreeSlot(h) == task[h] = Idle /\ (h = "h1" \/ task["h1"] # Idle)

\* is_event_ignored as it would be if it looked at the channel alone
is_event_ignored_by_channel_only(channel_id, guild_id) ==
    channel_id \in ignored_channels

\* Archiver::is_event_ignored
is_event_ignored(channel_id, guild_id) ==
    IF is_some(guild_id)
    THEN channel_id \in ignored_channels \/ unwrap(guild_id) \in ignored_guilds
    ELSE channel_id \in ignored_channels

(* ---------------------------- merge logic ----------------------------- *)

\* the update merge as it would be if the appended iteration were stamped with
\* the creation timestamp of the record
message_update_merge_creation_time(db_message, update, timestamp, marked_as_edited, session) ==
    IF is_some(db_message)
    THEN IF unwrap(db_message).variant \in {"Full", "Incomplete"}
         THEN [ok |->
                 [unwrap(db_message) EXCEPT
                    !.iterations =
                        Append(@, ArchivedMessageIteration_from_gateway(
                                      update, unwrap(db_message).timestamp, session)),
                    !.marked_as_edited = marked_as_edited]]
         ELSE [skip |-> "update for deleted message"]
    ELSE ArchivedMessageIncomplete_from_gateway(update, timestamp, session)

\* the update merge as it would be if an iteration with the timestamp of the
\* last one replaced it instead of being appended
message_update_merge_dedup(db_message, update, timestamp, marked_as_edited, session) ==
    IF is_some(db_message)
    THEN IF unwrap(db_message).variant \in {"Full", "Incomplete"}
         THEN LET its == unwrap(db_message).iterations
                  it == ArchivedMessageIteration_from_gateway(update, timestamp, session)
              IN  [ok |->
                     [unwrap(db_message) EXCEPT
                        !.iterations =
                            IF its[Len(its)].timestamp = timestamp
                            THEN [its EXCEPT ![Len(its)] = it]
                            ELSE Append(its, it),
                        !.marked_as_edited = marked_as_edited]]
         ELSE [skip |-> "update for deleted message"]
    ELSE ArchivedMessageIncomplete_from_gateway(update, timestamp, session)

\* the update merge as it would be if it appended to every record that has an
\* iteration log, the deleted ones too
message_update_merge_any(db_message, update, timestamp, marked_as_edited, session) ==
    IF is_some(db_message)
    THEN IF unwrap(db_message).variant \in IterationVariants
         THEN [ok |->
                 [unwrap(db_message) EXCEPT
                    !.iterations =
                        Append(@, ArchivedMessageIteration_from_gateway(
                                      update, timestamp, session)),
                    !.marked_as_edited = marked_as_edited]]
         ELSE [skip |-> "update for deleted message"]
    ELSE ArchivedMessageIncomplete_from_gateway(update, timestamp, session)

\* the update merge as it would be if it took the channel and the guild of
\* the record from the edit payload
message_update_merge_restamping(db_message, update, timestamp, marked_as_edited, session) ==
    IF is_some(db_message)
    THEN IF unwrap(db_message).variant \in {"Full", "Incomplete"}
         THEN [ok |->
                 [unwrap(db_message) EXCEPT
                    !.channel_id = update.channel_id,
                    !.guild_id = update.guild_id,
                    !.iterations =
                        Append(@, ArchivedMessageIteration_from_gateway(
                                      update, timestamp, session)),
                    !.marked_as_edited = marked_as_edited]]
         ELSE [skip |-> "update for deleted message"]
    ELSE ArchivedMessageIncomplete_from_gateway(update, timestamp, session)

\* the update merge as it would be if an edit payload without author or
\* timestamp were refused for an existing record too
message_update_merge_strict(db_message, update, timestamp, marked_as_edited, session) ==
    IF ~is_some(update.author) THEN [err |-> "NoAuthor"]
    ELSE IF ~is_some(update.timestamp) THEN [err |-> "NoTimestamp"]
    ELSE IF is_some(db_message)
    THEN IF unwrap(db_message).variant \in {"Full", "Incomplete"}
         THEN [ok |->
                 [unwrap(db_message) EXCEPT
                    !.iterations =
                        Append(@, ArchivedMessageIteration_from_gateway(
                                      update, timestamp, session)),
                    !.marked_as_edited = marked_as_edited]]
         ELSE [skip |-> "update for deleted message"]
    ELSE ArchivedMessageIncomplete_from_gateway(update, timestamp, session)

\* Archiver::message_update, the match on db_message: [ok |-> the record to
\* store], [skip |-> ...] for an already-deleted record, or [err |-> ...]
message_update_merge(db_message, update, timestamp, marked_as_edited, session) ==
    IF is_some(db_message)
    THEN IF unwrap(db_message).variant \in {"Full", "Incomplete"}
         THEN [ok |->
                 [unwrap(db_message) EXCEPT
                    !.iterations =
                        Append(@, ArchivedMessageIteration_from_gateway(
                                      update, timestamp, session)),
                    !.marked_as_edited = marked_as_edited]]
         ELSE [skip |-> "update for deleted message"]
    ELSE ArchivedMessageIncomplete_from_gateway(update, timestamp, session)

\* the delete merge as it would be if it never looked at the record it found
message_delete_merge_blind(db_message, channel_id, id, guild_id, timestamp) ==
    [ok |-> [variant |-> "UnknownDeleted",
             id |-> id,
             channel_id |-> channel_id,
             guild_id |-> guild_id,
             deleted_timestamp |-> Some(timestamp)]]

\* Archiver::message_delete, the match on db_message
message_delete_merge(db_message, channel_id, id, guild_id, timestamp) ==
    IF is_some(db_message)
    THEN CASE unwrap(db_message).variant = "Full" ->
                [ok |-> ArchivedMessageFull_into_deleted(
                            unwrap(db_message), Some(timestamp))]
           [] unwrap(db_message).variant = "Incomplete" ->
                [ok |-> ArchivedMessageIncomplete_into_deleted(
                            unwrap(db_message), Some(timestamp))]
           [] OTHER -> [skip |-> "delete event for deleted message"]
    ELSE [ok |-> [variant |-> "UnknownDeleted",
                  id |-> id,
                  channel_id |-> channel_id,
                  guild_id |-> guild_id,
                  deleted_timestamp |-> Some(timestamp)]]

IsOk(r) == "ok" \in DOMAIN r

(* ------------------------------ handlers ------------------------------ *)

\* the Create handler as it would be if a failed insert_one had stored the
\* record all the same
message_inserting_on_error(msg) ==
    /\ dispatched < MaxEvents
    /\ dispatched' = dispatched + 1
    /\ IF is_event_ignored(msg.channel_id, msg.guild_id)
       THEN /\ log' = <<>>
            /\ UNCHANGED store
       ELSE \E res \in Outcomes :
              /\ store' = insert_one(store,
                     to_bson(ArchivedMessageFull_from_gateway(msg, session_id)))
              /\ log' = IF res = "Err"
                        THEN << "Failed to insert new message into mong" >>
                        ELSE << "Stored message" >>
    /\ UNCHANGED <<task, now, session_id>>

\* Archiver::message: the handler of a Create event
message(msg) ==
    /\ dispatched < MaxEvents
    /\ dispatched' = dispatched + 1
    /\ IF is_event_ignored(msg.channel_id, msg.guild_id)
       THEN /\ log' = <<>>
            /\ UNCHANGED store
       ELSE \E res \in Outcomes :
              IF res = "Err"
              THEN /\ log' = << "Failed to insert new message into mong" >>
                   /\ UNCHANGED store
              ELSE /\ store' = insert_one(store,
                          to_bson(ArchivedMessageFull_from_gateway(msg, session_id)))
                   /\ log' = << "Stored message" >>
    /\ UNCHANGED <<task, now, session_id>>

\* Archiver::message_update up to the return of find_one
message_update_find(h, update) ==
    /\ dispatched < MaxEvents
    /\ FreeSlot(h)
    /\ dispatched' = dispatched + 1
    /\ IF is_event_ignored(update.channel_id, update.guild_id)
       THEN /\ log' = <<>>
            /\ UNCHANGED task
       ELSE \E res \in Outcomes :
              IF res = "Err"
              THEN /\ log' = << "Couldn't fetch message from mong" >>
                   /\ UNCHANGED task
              ELSE /\ find_one_decodes(store, update.id)
                   /\ task' = [task EXCEPT ![h] =
                        [op |-> "message_update",
                         update |-> update,
                         message_id |-> update.id,
                         timestamp |->
                            IF is_some(update.edited_timestamp)
                            THEN convert_ts(unwrap(update.edited_timestamp))
                            ELSE now,
                         marked_as_edited |-> is_some(update.edited_timestamp),
                         db_message |-> find_one(store, update.id)]]
                   /\ log' = <<>>
    /\ UNCHANGED <<store, now, session_id>>

\* the second half of the Edit handler as it would be if a failed update_one
\* were tried again
message_update_store_retrying(h) ==
    /\ task[h].op = "message_update"
    /\ LET t == task[h]
           new_message == message_update_merge(t.db_message, t.update, t.timestamp,
                                               t.marked_as_edited, session_id)
       IN  IF ~IsOk(new_message)
           THEN /\ log' = IF "skip" \in DOMAIN new_message
                          THEN << "Discor sent update for deleted message" >>
                          ELSE << "Failed to create incomplete message from update event" >>
                /\ task' = [task EXCEPT ![h] = Idle]
                /\ UNCHANGED store
           ELSE \E res \in Outcomes :
                  IF res = "Err"
                  THEN /\ log' = << "Failed to store update for message" >>
                       /\ UNCHANGED <<store, task>>
                  ELSE /\ store' = update_one(store, t.message_id,
                                              to_bson(new_message.ok))
                       /\ task' = [task EXCEPT ![h] = Idle]
                       /\ log' = << "Stored update for message" >>
    /\ UNCHANGED <<now, session_id, dispatched>>

\* Archiver::message_update from the match on db_message to its end
message_update_store(h) ==
    /\ task[h].op = "message_update"
    /\ task' = [task EXCEPT ![h] = Idle]
    /\ LET t == task[h]
           new_message == message_update_merge(t.db_message, t.update, t.timestamp,
                                               t.marked_as_edited, session_id)
       IN  IF ~IsOk(new_message)
           THEN /\ log' = IF "skip" \in DOMAIN new_message
                          THEN << "Discor sent update for deleted message" >>
                          ELSE << "Failed to create incomplete message from update event" >>
                /\ UNCHANGED store
           ELSE \E encoded \in Outcomes, res \in Outcomes :
                  IF encoded = "Err"
                  THEN /\ res = "Err"
                       /\ log' = << "Failed to serialize database message" >>
                       /\ UNCHANGED store
                  ELSE IF res = "Err"
                  THEN /\ log' = << "Failed to store update for message" >>
                       /\ UNCHANGED store
                  ELSE /\ store' = update_one(store, t.message_id,
                                              to_bson(new_message.ok))
                       /\ log' = << "Stored update for message" >>
    /\ UNCHANGED <<now, session_id, dispatched>>

\* Archiver::message_delete up to the return of find_one
message_delete_find(h, place, id) ==
    /\ dispatched < MaxEvents
    /\ FreeSlot(h)
    /\ dispatched' = dispatched + 1
    /\ IF is_event_ignored(place.channel_id, place.guild_id)
       THEN /\ log' = <<>>
            /\ UNCHANGED task
       ELSE \E res \in Outcomes :
              IF res = "Err"
              THEN /\ log' = << "Message deleted",
                                "Couldn't fetch message from mong" >>
                   /\ UNCHANGED task
              ELSE /\ find_one_decodes(store, id)
                   /\ task' = [task EXCEPT ![h] =
                        [op |-> "message_delete",
                         channel_id |-> place.channel_id,
                         id |-> id,
                         guild_id |-> place.guild_id,
                         timestamp |-> now,
                         db_message |-> find_one(store, id)]]
                   /\ log' = << "Message deleted" >>
    /\ UNCHANGED <<store, now, session_id>>

\* Archiver::message_delete from the match on db_message to its end
message_delete_store(h) ==
    /\ task[h].op = "message_delete"
    /\ task' = [task EXCEPT ![h] = Idle]
    /\ LET t == task[h]
           new_message == message_delete_merge(t.db_message, t.channel_id, t.id,
                                               t.guild_id, t.timestamp)
       IN  IF ~IsOk(new_message)
           THEN /\ log' = << "Discor sent delete event for deleted message" >>
                /\ UNCHANGED store
           ELSE \E encoded \in Outcomes, res \in Outcomes :
                  IF encoded = "Err"
                  THEN /\ res = "Err"
                       /\ log' = << "Failed to serialize database message" >>
                       /\ UNCHANGED store
                  ELSE IF res = "Err"
                  THEN /\ log' = << "Failed to store update for message",
                                    "Stored deletion timestamp of message" >>
                       /\ UNCHANGED store
                  ELSE /\ store' = update_one(store, t.id, to_bson(new_message.ok))
                       /\ log' = << "Stored update for message",
                                    "Stored deletion timestamp of message" >>
    /\ UNCHANGED <<now, session_id, dispatched>>

\* the BulkDelete handler as it would be if it stored a deletion for the
\* first id it lists
message_delete_bulk_decomposed(place, message_ids) ==
    /\ dispatched < MaxEvents
    /\ dispatched' = dispatched + 1
    /\ log' = << "bruh moment" >>
    /\ store' = update_one(store, message_ids[1],
                    to_bson([variant |-> "UnknownDeleted",
                             id |-> message_ids[1],
                             channel_id |-> place.channel_id,
                             guild_id |-> place.guild_id,
                             deleted_timestamp |-> Some(now)]))
    /\ UNCHANGED <<task, now, session_id>>

\* Archiver::message_delete_bulk
message_delete_bulk(place, message_ids) ==
    /\ dispatched < MaxEvents
    /\ dispatched' = dispatched + 1
    /\ log' = << "bruh moment" >>
    /\ UNCHANGED <<store, task, now, session_id>>

\* the wall clock advances
Tick ==
    /\ now < MaxTime
    /\ now' = now + 1
    /\ log' = <<>>
    /\ UNCHANGED <<store, task, session_id, dispatched>>

\* the process ends and archiver::run starts again: a fresh session id; the
\* handlers in flight are abandoned, the store keeps its documents
Restart ==
    /\ session_id + 1 \in Sessions
    /\ session_id' = session_id + 1
    /\ task' = [h \in Handlers |-> Idle]
    /\ log' = <<>>
    /\ UNCHANGED <<store, now, dispatched>>

Next ==
    \/ \E id \in MsgIds : \E msg \in MessagesFor(id) : message(msg)
    \/ \E h \in Handlers : \E id \in MsgIds :
          \E update \in MessageUpdateEventsFor(id) : message_update_find(h, update)
    \/ \E h \in Handlers : message_update_store(h)
    \/ \E h \in Handlers : \E place \in DeletePlaces : \E id \in MsgIds :
          message_delete_find(h, place, id)
    \/ \E h \in Handlers : message_delete_store(h)
    \/ \E place \in DeletePlaces : \E message_ids \in BulkIds :
          message_delete_bulk(place, message_ids)
    \/ Tick
    \/ Restart

Spec == Init /\ [][Next]_vars

\* a handler suspended in find_one goes on once the call has returned: the
\* runtime polls every task whose store call is complete
FairSpec ==
    /\ Spec
    /\ \A h \in Handlers :
          WF_vars(message_update_store(h)) /\ WF_vars(message_delete_store(h))

(* ------------------------- reading a behaviour ------------------------ *)

\* the message id a suspended handler is about
TaskId(h) == IF task[h].op = "message_update" THEN task[h].message_id ELSE task[h].id

\* this step is the second half of handler h running op
Finishes(h, op) == task[h].op = op /\ task'[h] = Idle /\ session_id' = session_id

\* the record handler h found
Found(h, variants) ==
    is_some(task[h].db_message) /\ unwrap(task[h].db_message).variant \in variants

\* no other handler has changed what h's lookup returned
Current(h) == task[h].db_message = find_one(store, TaskId(h))

\* this step's update_one returned Ok
Wrote == log' # <<>> /\ log'[1] = "Stored update for message"

\* the record handler h hands to bson::to_bson in this step
Written(h) ==
    IF task[h].op = "message_update"
    THEN message_update_merge(task[h].db_message, task[h].update, task[h].timestamp,
                              task[h].marked_as_edited, session_id).ok
    ELSE message_delete_merge(task[h].db_message, task[h].channel_id, task[h].id,
                              task[h].guild_id, task[h].timestamp).ok

\* the document stored for h's message id after this step
StoredAfter(h) == store'[FirstMatch(store', TaskId(h))]

\* every stored document deserialises
StoreDecodable == \A i \in DOMAIN store : Decodable(store[i])

(* -------------------------------- C1 ---------------------------------- *)

\* C1: in every reachable state the store holds at most one record per
\* message id, whatever Create, Edit, Delete and BulkDelete events came before
C1_OneRecordPerId == \A id \in MsgIds : Cardinality(Matching(store, id)) <= 1

(* -------------------------------- C2 ---------------------------------- *)

AllowedMove(a, b) ==
    \/ a = b
    \/ (a = "Full" /\ b = "FullDeleted")
    \/ (a = "Incomplete" /\ b = "IncompleteDeleted")

\* in this step every document keeps its variant or moves to its deleted
\* counterpart, and a new document starts as Full, Incomplete or UnknownDeleted
VariantsMoveForward ==
    /\ \A i \in DOMAIN store :
          AllowedMove(store[i].archive_type, store'[i].archive_type)
    /\ \A i \in DOMAIN store' \ DOMAIN store :
          store'[i].archive_type \in {"Full", "Incomplete", "UnknownDeleted"}

\* C2 as stated: in every execution, interleaved handlers of one id included,
\* the variant of a stored record only moves forward through its lifecycle
C2_ForwardUnderInterleaving == [][VariantsMoveForward]_vars

\* C2 amended: a step moves variants forward only, provided the handler that
\* completes in it still holds the record a lookup would return, that is no
\* other handler of the same id wrote between its lookup and its write
C2_ForwardWhenSerial ==
    [][(\A h \in Handlers :
           (task[h] # Idle /\ task'[h] = Idle /\ session_id' = session_id)
              => Current(h))
         => VariantsMoveForward]_vars

\* a record was promoted to its deleted counterpart
C2_Witness ==
    /\ \E i \in DOMAIN store : store[i].archive_type = "FullDeleted"
    /\ log = <<"Stored update for message", "Stored deletion timestamp of message">>

(* -------------------------------- C3 ---------------------------------- *)

\* C3: an Edit handler that found a Full or Incomplete record, was not
\* interleaved with another handler of the id and stored its result leaves the
\* record with the same variant and with its log extended by exactly one
\* iteration at the end, the earlier iterations unchanged and in order
C3_EditAppendsOne ==
    [][\A h \in Handlers :
          (/\ Finishes(h, "message_update")
           /\ Found(h, {"Full", "Incomplete"})
           /\ Current(h)
           /\ Wrote)
          => LET i == FirstMatch(store, TaskId(h))
             IN  /\ store'[i].archive_type = store[i].archive_type
                 /\ Len(store'[i].iterations) = Len(store[i].iterations) + 1
                 /\ \A k \in DOMAIN store[i].iterations :
                       store'[i].iterations[k] = store[i].iterations[k]]_vars

\* an edit was stored whose iteration has the timestamp of the one before it
C3_Witness ==
    /\ log = <<"Stored update for message">>
    /\ \E i \in DOMAIN store :
          /\ store[i].archive_type \in {"Full", "Incomplete"}
          /\ Len(store[i].iterations) >= 2
          /\ store[i].iterations[Len(store[i].iterations)].timestamp
                = store[i].iterations[Len(store[i].iterations) - 1].timestamp

(* -------------------------------- C4 ---------------------------------- *)

\* a Delete handler that found a Full or Incomplete record stored its result
DeletionStored(h) ==
    /\ Finishes(h, "message_delete")
    /\ Found(h, {"Full", "Incomplete"})
    /\ Wrote

\* the stored document is the deleted counterpart of the record h found, with
\* every static field, the iteration log and marked_as_edited as they were
DeletedCounterpart(h) ==
    LET before == to_bson(unwrap(task[h].db_message))
    IN  /\ StoredAfter(h).archive_type =
              (IF before.archive_type = "Full" THEN "FullDeleted"
                                                ELSE "IncompleteDeleted")
        /\ \A f \in DOMAIN before \ {"archive_type"} : StoredAfter(h)[f] = before[f]
        /\ StoredAfter(h).deleted_timestamp # <<"null">>

\* C4 as stated: the Delete of a Full (Incomplete) record stores the
\* FullDeleted (IncompleteDeleted) record with the same fields and iterations
\* and a non-null deletion timestamp equal to the receipt time of the event
C4_DeleteKeepsRecordAtReceiptTime ==
    [][\A h \in Handlers :
          DeletionStored(h)
          => /\ DeletedCounterpart(h)
             /\ ts_milliseconds_option_de(StoredAfter(h).deleted_timestamp)
                   = Some(task[h].timestamp)]_vars

\* C4 amended: the same, with the deletion timestamp equal to the receipt time
\* cut to whole milliseconds
C4_DeleteKeepsRecordAtReceiptMilli ==
    [][\A h \in Handlers :
          DeletionStored(h)
          => /\ DeletedCounterpart(h)
             /\ ts_milliseconds_option_de(StoredAfter(h).deleted_timestamp)
                   = Some(convert_ts(task[h].timestamp))]_vars

\* a deletion received between two whole milliseconds was stored for a record
\* with its iteration log
C4_Witness ==
    /\ log = <<"Stored update for message", "Stored deletion timestamp of message">>
    /\ now % TicksPerMilli # 0
    /\ \E i \in DOMAIN store :
          /\ store[i].archive_type \in {"FullDeleted", "IncompleteDeleted"}
          /\ store[i].deleted_timestamp = ts_milliseconds_ser(now)

(* -------------------------------- C5 ---------------------------------- *)

\* C5: an Edit handler that found no record stores, when the payload carries
\* author and timestamp, an Incomplete record with exactly one iteration and
\* marked_as_edited = TRUE whatever the payload's edit timestamp; when author
\* or timestamp is missing it signals a translation error and leaves the store
\* as it was
C5_EditWithoutRecord ==
    [][\A h \in Handlers :
          (Finishes(h, "message_update") /\ task[h].db_message = None)
          => IF is_some(task[h].update.author) /\ is_some(task[h].update.timestamp)
             THEN Wrote
                  => /\ StoredAfter(h).archive_type = "Incomplete"
                     /\ Len(StoredAfter(h).iterations) = 1
                     /\ StoredAfter(h).marked_as_edited = TRUE
             ELSE /\ log' = <<"Failed to create incomplete message from update event">>
                  /\ store' = store]_vars

(* -------------------------------- C6 ---------------------------------- *)

\* C6: marked_as_edited of a stored record tells whether the platform has
\* reported a content edit of the message: once it is true, a later Edit
\* event for the id (handled on its own, after the earlier ones) does not set
\* it back to false
C6_EditedFlagStays ==
    [][\A h \in Handlers :
          (/\ Finishes(h, "message_update")
           /\ Found(h, {"Full", "Incomplete"})
           /\ Current(h)
           /\ unwrap(task[h].db_message).marked_as_edited
           /\ Wrote)
          => StoredAfter(h).marked_as_edited]_vars

(* -------------------------------- C7 ---------------------------------- *)

\* C7: the write of a handler that found a record fully replaces the
\* document under its message id: after it, also when another handler of the
\* id wrote since the lookup, the stored document is exactly the record this
\* handler wrote and no field of the earlier write remains
C7_LaterWriteReplaces ==
    [][\A h \in Handlers :
          (/\ Finishes(h, "message_update") \/ Finishes(h, "message_delete")
           /\ is_some(task[h].db_message)
           /\ Wrote)
          => StoredAfter(h) = to_bson(Written(h))]_vars

(* -------------------------------- C8 ---------------------------------- *)

\* C8: an Edit or Delete handler that found a FullDeleted, IncompleteDeleted
\* or UnknownDeleted record writes nothing: the store, and with it the record
\* and the timestamp of its first deletion, is left as it was
C8_DeletedRecordUntouched ==
    [][\A h \in Handlers :
          ((Finishes(h, "message_update") \/ Finishes(h, "message_delete"))
             /\ Found(h, DeletedVariants))
          => store' = store]_vars

\* an event for an already deleted record was dropped as an anomaly
C8_Witness ==
    /\ log \in {<<"Discor sent delete event for deleted message">>,
                <<"Discor sent update for deleted message">>}
    /\ \E i \in DOMAIN store : store[i].archive_type \in DeletedVariants

(* -------------------------------- C9 ---------------------------------- *)

\* document d is what C9 says a stored Create event msg looks like: a Full
\* record, one iteration with the event's content, marked_as_edited = FALSE,
\* the static fields those of the event (timestamps at the stored precision)
CopyOfCreate(msg, d) ==
    /\ d.archive_type = "Full"
    /\ Len(d.iterations) = 1
    /\ d.iterations[1].content = msg.content
    /\ d.iterations[1].attachments = msg.attachments
    /\ d.iterations[1].embeds = msg.embeds
    /\ d.iterations[1].components = msg.components
    /\ d.iterations[1].sticker_items = msg.sticker_items
    /\ d.marked_as_edited = FALSE
    /\ d.id = id_to_string(msg.id)
    /\ d.channel_id = msg.channel_id
    /\ d.guild_id = msg.guild_id
    /\ d.author_id = msg.author
    /\ d.timestamp = ts_milliseconds_ser(msg.timestamp)
    /\ d.type = msg.kind
    /\ d.message_reference = msg.message_reference
    /\ d.webhook_id = msg.webhook_id
    /\ d.application_id = msg.application_id
    /\ d.interaction = msg.interaction

\* C9: the record a Create handler inserts is a Full record with exactly one
\* iteration whose content is the event's, marked_as_edited = FALSE and the
\* static fields copied from the event
C9_CreateStoresCopy ==
    [][log' = <<"Stored message">>
         => \E id \in MsgIds : \E msg \in MessagesFor(id) :
               CopyOfCreate(msg, store'[Len(store')])]_vars

(* -------------------------------- C10 --------------------------------- *)

\* C10: a Delete handler that found no record leaves, as the stored result,
\* an UnknownDeleted record carrying only the event's message id, channel id,
\* guild id and the receipt time as deletion timestamp: no iteration log and
\* no author
C10_DeleteWithoutRecord ==
    [][\A h \in Handlers :
          (Finishes(h, "message_delete") /\ task[h].db_message = None /\ Wrote)
          => StoredAfter(h) =
                [archive_type |-> "UnknownDeleted",
                 id |-> id_to_string(task[h].id),
                 channel_id |-> task[h].channel_id,
                 guild_id |-> task[h].guild_id,
                 deleted_timestamp |-> <<"str", task[h].timestamp>>]]_vars

(* -------------------------------- C11 --------------------------------- *)

\* every stored record of a variant with an iteration log has a non-empty log
IterationsNonEmpty ==
    \A i \in DOMAIN store :
       store[i].archive_type \in IterationVariants => Len(store[i].iterations) >= 1

\* the record a Create handler inserts, and the record an Edit handler that
\* found none stores, has exactly one iteration
FoundingHasOneIteration ==
    /\ log' = <<"Stored message">> => Len(store'[Len(store')].iterations) = 1
    /\ \A h \in Handlers :
          (Finishes(h, "message_update") /\ task[h].db_message = None /\ Wrote)
          => /\ StoredAfter(h).archive_type = "Incomplete"
             /\ Len(StoredAfter(h).iterations) = 1

\* C11: in every reachable state, under any interleaving of the handlers of
\* one id, a stored Full, FullDeleted, Incomplete or IncompleteDeleted record
\* has a non-empty iteration log, and a record just created by a Create event
\* or by an Edit event that found no record has exactly one iteration
C11_IterationLogNonEmpty == []IterationsNonEmpty /\ [][FoundingHasOneIteration]_vars

\* an Edit handler that found no record stored its Incomplete record over a
\* record another handler had stored meanwhile
C11_Witness ==
    /\ log = <<"Stored update for message">>
    /\ \E i \in DOMAIN store :
          /\ store[i].archive_type = "Incomplete"
          /\ Len(store[i].iterations) = 1
          /\ "type" \in DOMAIN store[i]

(* -------------------------------- C12 --------------------------------- *)

\* handler h works on the only record of its message id, as it is stored now
OnlyRecord(h) == Cardinality(Matching(store, TaskId(h))) = 1 /\ Current(h)

\* a Create event for an id without a record leaves one Full record for it,
\* with one iteration
CreateThenOne ==
    \A id \in MsgIds :
       (/\ Matching(store, id) = {}
        /\ log' = <<"Stored message">>
        /\ Matching(store', id) # {})
       => /\ Cardinality(Matching(store', id)) = 1
          /\ store'[Len(store')].archive_type = "Full"
          /\ Len(store'[Len(store')].iterations) = 1

\* an Edit event with content, handled after the Create on the record the
\* Create left, leaves one Full record with iterations [c1, c2];
\* marked_as_edited is then edited(h)
EditThenTwo(h, edited(_)) ==
    (/\ Finishes(h, "message_update")
     /\ Found(h, {"Full"})
     /\ OnlyRecord(h)
     /\ Len(unwrap(task[h].db_message).iterations) = 1
     /\ is_some(task[h].update.content)
     /\ Wrote)
    => LET before == store[FirstMatch(store, TaskId(h))]
       IN  /\ Cardinality(Matching(store', TaskId(h))) = 1
           /\ StoredAfter(h).archive_type = "Full"
           /\ Len(StoredAfter(h).iterations) = 2
           /\ StoredAfter(h).iterations[1] = before.iterations[1]
           /\ StoredAfter(h).iterations[2].content = unwrap(task[h].update.content)
           /\ StoredAfter(h).marked_as_edited = edited(h)

\* a Delete event handled after that Edit leaves one FullDeleted record with
\* the same two iterations and a deletion timestamp
DeleteThenDeleted(h) ==
    (/\ Finishes(h, "message_delete")
     /\ Found(h, {"Full"})
     /\ OnlyRecord(h)
     /\ Len(unwrap(task[h].db_message).iterations) = 2
     /\ Wrote)
    => LET before == store[FirstMatch(store, TaskId(h))]
       IN  /\ Cardinality(Matching(store', TaskId(h))) = 1
           /\ StoredAfter(h).archive_type = "FullDeleted"
           /\ StoredAfter(h).iterations = before.iterations
           /\ StoredAfter(h).deleted_timestamp # <<"null">>

AlwaysEdited(h) == TRUE

EditedByPayload(h) == is_some(task[h].update.edited_timestamp)

\* C12 as stated: Create(c1), one Edit(c2), Delete for an id without a
\* record, one after another, leave one record: after the Edit a Full record
\* with iterations [c1, c2] and marked_as_edited = TRUE, after the Delete a
\* FullDeleted record with the same two iterations and a deletion timestamp
C12_CreateEditDelete ==
    [][/\ CreateThenOne
       /\ \A h \in Handlers : EditThenTwo(h, AlwaysEdited) /\ DeleteThenDeleted(h)]_vars

\* C12 amended: the same, with marked_as_edited after the Edit true exactly
\* when the Edit payload carries an edit timestamp
C12_CreateEditDeleteFlagFromPayload ==
    [][/\ CreateThenOne
       /\ \A h \in Handlers : EditThenTwo(h, EditedByPayload) /\ DeleteThenDeleted(h)]_vars

\* the three events were handled: one FullDeleted record with the iterations
\* "hi" and "hi!"
C12_Witness ==
    /\ dispatched = 3
    /\ Len(store) = 1
    /\ store[1].archive_type = "FullDeleted"
    /\ Len(store[1].iterations) = 2
    /\ store[1].iterations[1].content = "hi"
    /\ store[1].iterations[2].content = "hi!"
    /\ store[1].marked_as_edited
    /\ store[1].deleted_timestamp # <<"null">>

(* -------------------------------- C13 --------------------------------- *)

\* the diagnostics of a failed lookup, encoding or write
FailureLines ==
    {"Failed to insert new message into mong", "Couldn't fetch message from mong",
     "Failed to serialize database message", "Failed to store update for message"}

\* a store call or the encoding failed in this step
StoreFailed == \E k \in DOMAIN log' : log'[k] \in FailureLines

\* C13: a handler whose lookup, encoding or write fails drops its event: the
\* store is left as it was, the handler is not kept for a retry, and the
\* other handlers, the clock and the session are as they were, so whatever
\* is dispatched next is handled as if the failed event had never come
C13_FailureDropsEvent ==
    [][StoreFailed
         => /\ store' = store
            /\ now' = now
            /\ session_id' = session_id
            /\ \A h \in Handlers : task'[h] = task[h] \/ task'[h] = Idle
            /\ \A h \in Handlers : task[h] = Idle => task'[h] = Idle]_vars

\* the write of an Edit handler failed while the store held the record
C13_Witness ==
    /\ log = <<"Failed to store update for message">>
    /\ \E i \in DOMAIN store :
          store[i].archive_type = "Full" /\ Len(store[i].iterations) = 1

(* -------------------------------- C14 --------------------------------- *)

\* the event's channel is on the ignored-channel list, or it has a guild id
\* and that guild is on the ignored-guild list
Suppressed(channel_id, guild_id) ==
    \/ channel_id \in ignored_channels
    \/ guild_id # None /\ unwrap(guild_id) \in ignored_guilds

\* the step made no lookup (none returned, none failed), no write and printed
\* nothing
NothingDone == store' = store /\ task' = task /\ log' = <<>>

\* the Create and Edit events the gateway dispatches, for any message
AllMessages == UNION {MessagesFor(id) : id \in MsgIds}

AllMessageUpdateEvents == UNION {MessageUpdateEventsFor(id) : id \in MsgIds}

\* this step is the dispatch of one of these events to its handler
Dispatches(messages, updates, places) ==
    \/ \E msg \in messages : message(msg)
    \/ \E update \in updates : \E h \in Handlers : message_update_find(h, update)
    \/ \E place \in places :
          \E h \in Handlers : \E id \in MsgIds : message_delete_find(h, place, id)

SuppressedMessages ==
    {msg \in AllMessages : Suppressed(msg.channel_id, msg.guild_id)}

SuppressedUpdates ==
    {update \in AllMessageUpdateEvents : Suppressed(update.channel_id, update.guild_id)}

SuppressedPlaces ==
    {place \in DeletePlaces : Suppressed(place.channel_id, place.guild_id)}

\* the (channel_id, guild_id) of the events the gateway dispatches
Places ==
    {<<msg.channel_id, msg.guild_id>> : msg \in AllMessages}
    \cup {<<update.channel_id, update.guild_id>> : update \in AllMessageUpdateEvents}
    \cup {<<place.channel_id, place.guild_id>> : place \in DeletePlaces}

\* the ignore check drops the suppressed events and no others: an event
\* without guild id is dropped for its channel alone
IgnoreCheckAsListed ==
    \A p \in Places : is_event_ignored(p[1], p[2]) <=> Suppressed(p[1], p[2])

\* C14: a Create, Edit or Delete event from an ignored channel, or from an
\* ignored guild when it has a guild id, is dropped before any lookup or
\* write and leaves the store as it was: a step that looks up, writes or
\* prints is not the dispatch of such an event; an event without guild id is
\* suppressed by its channel id only
C14_IgnoredEventDoesNothing ==
    [][/\ IgnoreCheckAsListed
       /\ (dispatched' # dispatched /\ ~NothingDone)
             => ~Dispatches(SuppressedMessages, SuppressedUpdates,
                            SuppressedPlaces)]_vars

\* an event was ignored after a record had been stored
C14_Witness ==
    /\ dispatched = 2
    /\ Len(store) = 1
    /\ log = <<>>
    /\ \A h \in Handlers : task[h] = Idle
    /\ now = 0
    /\ session_id = 1

(* -------------------------------- C15 --------------------------------- *)

\* C15: a BulkDelete event changes nothing: for every id it lists, the store
\* holds after it the record, or the absence of a record, it held before, and
\* the handler makes no lookup and no write
C15_BulkDeleteDoesNothing ==
    [][\A place \in DeletePlaces : \A message_ids \in BulkIds :
          message_delete_bulk(place, message_ids)
          => /\ store' = store
             /\ task' = task
             /\ \A k \in DOMAIN message_ids :
                   Matching(store', message_ids[k]) = Matching(store, message_ids[k])]_vars

\* a BulkDelete event listing message 1 was received while the store held a
\* record of message 1 that is not deleted
C15_Witness ==
    /\ log = <<"bruh moment">>
    /\ \E i \in Matching(store, 1) : store[i].archive_type \in {"Full", "Incomplete"}

(* -------------------------------- C16 --------------------------------- *)

\* an Edit handler stores an iteration appended to a record whose last
\* iteration was captured by another session
AppendsAfterRestart(h) ==
    /\ Finishes(h, "message_update")
    /\ Found(h, {"Full", "Incomplete"})
    /\ LET its == unwrap(task[h].db_message).iterations
       IN  its[Len(its)].session_id # session_id
    /\ Wrote

\* the iteration handler h appends in this step, as stored
Appended(h) == StoredAfter(h).iterations[Len(StoredAfter(h).iterations)]

\* C16 as stated: the iteration a session appends to a record whose preceding
\* iteration was captured by a different session has may_contain_gap = TRUE
C16_GapFlaggedAfterRestart ==
    [][\A h \in Handlers :
          AppendsAfterRestart(h) => Appended(h).may_contain_gap = TRUE]_vars

\* C16 amended: that iteration has may_contain_gap = FALSE, as every stored
\* iteration has; the restart shows only in its session id, which is the
\* running session's and differs from the preceding iteration's
C16_GapShownBySessionOnly ==
    [][/\ \A h \in Handlers :
             AppendsAfterRestart(h)
             => LET its == StoredAfter(h).iterations
                IN  /\ Appended(h).may_contain_gap = FALSE
                    /\ Appended(h).session_id = session_id
                    /\ its[Len(its) - 1].session_id # session_id
       /\ \A i \in DOMAIN store' :
             "iterations" \in DOMAIN store'[i]
             => \A k \in DOMAIN store'[i].iterations :
                   store'[i].iterations[k].may_contain_gap = FALSE]_vars

\* a record holds two consecutive iterations captured by different sessions
C16_Witness ==
    /\ log = <<"Stored update for message">>
    /\ \E i \in DOMAIN store :
          /\ store[i].archive_type \in {"Full", "Incomplete"}
          /\ Len(store[i].iterations) = 2
          /\ store[i].iterations[1].session_id = 1
          /\ store[i].iterations[2].session_id = 2

(* -------------------------------- C17 --------------------------------- *)

\* the iteration a Create or Edit handler stores in this step carries the
\* session id of the running service
NewIterationOfThisSession ==
    /\ log' = <<"Stored message">>
          => store'[Len(store')].iterations[1].session_id = session_id
    /\ \A h \in Handlers :
          (Finishes(h, "message_update") /\ Wrote)
          => Appended(h).session_id = session_id

\* no step changes the session id of an iteration that is already stored
SessionIdsKept ==
    \A i \in DOMAIN store :
       "iterations" \in DOMAIN store[i]
       => \A k \in DOMAIN store[i].iterations \cap DOMAIN store'[i].iterations :
             store'[i].iterations[k].session_id = store[i].iterations[k].session_id

\* C17: across the runs of the service, each with its own session id, an
\* iteration stored by a Create or Edit handler carries the session id of the
\* run that stored it, and appending a later iteration or promoting the
\* record to a deleted variant leaves the session ids of the earlier
\* iterations as they were
C17_IterationKeepsSession ==
    [][NewIterationOfThisSession /\ SessionIdsKept]_vars

\* in the second run a record captured by the first run was promoted to its
\* deleted variant after the second run appended an iteration
C17_Witness ==
    /\ session_id = 2
    /\ \E i \in DOMAIN store :
          /\ store[i].archive_type = "FullDeleted"
          /\ Len(store[i].iterations) = 2
          /\ store[i].iterations[1].session_id = 1
          /\ store[i].iterations[2].session_id = 2

(* -------------------------------- C18 --------------------------------- *)

\* the fields of a stored record an Edit event may change
EditedFields == {"iterations", "marked_as_edited"}

ObservedAt(h) ==
    IF is_some(task[h].update.edited_timestamp)
    THEN unwrap(task[h].update.edited_timestamp)
    ELSE task[h].timestamp

\* an Edit handler stores a record, founded or extended by its iteration
EditStored(h) ==
    /\ Finishes(h, "message_update")
    /\ task[h].db_message = None \/ Found(h, {"Full", "Incomplete"})
    /\ Wrote

\* C19 as stated: the iteration an Edit event produces is stamped with the
\* event's edit timestamp when there is one, else with the wall-clock time at
\* which the handler received the event
C19_EditIterationTimestamp ==
    [][\A h \in Handlers :
          EditStored(h)
          => ts_milliseconds_de(Appended(h).timestamp) = ObservedAt(h)]_vars

\* C19 amended: it is stamped with that time cut to whole milliseconds
C19_EditIterationTimestampMilli ==
    [][\A h \in Handlers :
          EditStored(h)
          => ts_milliseconds_de(Appended(h).timestamp) = convert_ts(ObservedAt(h))]_vars

\* an embed-only Edit event, which carries no edit timestamp, was appended to
\* a record while the clock stood between two whole milliseconds
C19_Witness ==
    /\ log = <<"Stored update for message">>
    /\ now % TicksPerMilli # 0
    /\ \E i \in DOMAIN store :
          /\ store[i].archive_type \in {"Full", "Incomplete"}
          /\ store[i].iterations[Len(store[i].iterations)].embeds = <<"embed">>
          /\ store[i].iterations[Len(store[i].iterations)].timestamp
                = ts_milliseconds_ser(now)

(* -------------------------------- C20 --------------------------------- *)

\* C20 as stated: the founding iteration of the Full record of a Create event
\* is stamped with the time the service received the event (taken here at the
\* stored precision), not with the message's creation timestamp
C20_FoundingAtReceipt ==
    [][log' = <<"Stored message">>
         => ts_milliseconds_de(store'[Len(store')].iterations[1].timestamp)
               = convert_ts(now)]_vars

\* C20 amended: it is stamped with the creation timestamp the event carries
\* for the message, cut to whole milliseconds, which is also the record's
\* creation timestamp; the time of receipt is not used
C20_FoundingAtCreation ==
    [][log' = <<"Stored message">>
         => \A msg \in AllMessages :
               message(msg)
               => LET d == store'[Len(store')]
                  IN  /\ ts_milliseconds_de(d.iterations[1].timestamp)
                            = convert_ts(msg.timestamp)
                      /\ d.iterations[1].timestamp = d.timestamp]_vars

\* a Create event was stored whose message was created a millisecond after
\* the time the service received the event at
C20_Witness ==
    /\ log = <<"Stored message">>
    /\ store[Len(store)].iterations[1].timestamp = ts_milliseconds_ser(2)
    /\ convert_ts(now) # 2

(* -------------------------------- C21 --------------------------------- *)

\* the edit payload of handler h lacks author or timestamp
Sparse(h) ==
    ~is_some(task[h].update.author) \/ ~is_some(task[h].update.timestamp)

\* the handler signalled a translation error in this step
TranslationError ==
    log' = <<"Failed to create incomplete message from update event">>

\* each content facet of the iteration is the payload's, or empty when the
\* payload does not carry it
FacetsDefaulted(it, update) ==
    /\ it.content = (IF update.content = None THEN "" ELSE unwrap(update.content))
    /\ it.attachments =
          (IF update.attachments = None THEN <<>> ELSE unwrap(update.attachments))
    /\ it.embeds = (IF update.embeds = None THEN <<>> ELSE unwrap(update.embeds))
    /\ it.components =
          (IF update.components = None THEN <<>> ELSE unwrap(update.components))
    /\ it.sticker_items =
          (IF update.sticker_items = None THEN <<>> ELSE unwrap(update.sticker_items))

\* C21: a translation error is signalled only by an Edit handler that found
\* no record; an Edit event whose payload lacks author or timestamp, handled
\* against a Full or Incomplete record, is not refused: unless the encoding
\* or the write itself fails it is stored, with exactly one iteration more
\* than the record found, the facets the payload lacks empty
C21_SparseEditStillAppends ==
    [][\A h \in Handlers :
          Finishes(h, "message_update")
          => /\ TranslationError => task[h].db_message = None
             /\ (Sparse(h) /\ Found(h, {"Full", "Incomplete"}))
                   => /\ \/ Wrote
                         \/ log' \in {<<"Failed to serialize database message">>,
                                      <<"Failed to store update for message">>}
                      /\ Wrote
                           => /\ Len(StoredAfter(h).iterations)
                                   = Len(unwrap(task[h].db_message).iterations) + 1
                              /\ FacetsDefaulted(Appended(h), task[h].update)]_vars

\* an embed-only Edit event, without author, timestamp or content, was
\* appended to a record
C21_Witness ==
    /\ log = <<"Stored update for message">>
    /\ \E i \in DOMAIN store :
          /\ store[i].archive_type \in {"Full", "Incomplete"}
          /\ Len(store[i].iterations) = 2
          /\ store[i].iterations[2].content = ""
          /\ store[i].iterations[2].embeds = <<"embed">>

(* -------------------------------- C22 --------------------------------- *)

\* what a handler prints about insert_one or update_one, and about a failed
\* find_one
WriteLines ==
    {"Stored message", "Failed to insert new message into mong",
     "Stored update for message", "Failed to store update for message"}

LookupLines == {"Couldn't fetch message from mong"}

\* the insert_one and update_one calls of this step
Writes == Cardinality({k \in DOMAIN log' : log'[k] \in WriteLines})

\* the find_one calls of this step: those that returned a result to a handler
\* now suspended with it, and those that failed
Lookups ==
    Cardinality({h \in Handlers : task[h] = Idle /\ task'[h] # Idle})
    + Cardinality({k \in DOMAIN log' : log'[k] \in LookupLines})

\* the store calls of one step: a lookup or a write, not both; the store
\* changes by one write; a Create handler looks nothing up; a handler that
\* takes up a lookup result has not written; a suspended handler stays as it
\* is or ends, without another lookup; a write comes from a handler that ends
\* in this step or from a Create handler; a BulkDelete handler calls nothing
HandlerSteps ==
    /\ Lookups + Writes <= 1
    /\ store' # store => Writes = 1 /\ Len(store') <= Len(store) + 1
    /\ (log' # <<>> /\ log'[1] \in {"Stored message",
                                     "Failed to insert new message into mong"})
          => Lookups = 0 /\ task' = task
    /\ \A h \in Handlers :
          /\ (task[h] = Idle /\ task'[h] # Idle) => Writes = 0
          /\ task[h] # Idle
                => /\ task'[h] = task[h] \/ task'[h] = Idle
                   /\ (task'[h] = Idle /\ session_id' = session_id) => Lookups = 0
    /\ (Writes = 1 /\ task' = task) => dispatched' # dispatched
    /\ log' = <<"bruh moment">> => Lookups = 0 /\ Writes = 0

\* C22: a handler call ends once its store calls have returned, after at most
\* one lookup and at most one write (Create: no lookup, one insert; Edit and
\* Delete: one lookup, then at most one upsert; BulkDelete: neither), and no
\* store call is tried again after it failed
C22_OneLookupOneWrite ==
    /\ [][HandlerSteps]_vars
    /\ \A h \in Handlers : (task[h] # Idle) ~> (task[h] = Idle)

\* the write of a Delete handler failed and the handler has ended
C22_Witness ==
    /\ log = <<"Failed to store update for message",
               "Stored deletion timestamp of message">>
    /\ \A h \in Handlers : task[h] = Idle
    /\ \E i \in DOMAIN store : store[i].archive_type = "Full"

(* -------------------------------- C23 --------------------------------- *)

\* the lines that tell of a stored event
SuccessLines ==
    {"Stored message", "Stored update for message",
     "Stored deletion timestamp of message"}

\* the lines that tell of a failed write
WriteFailureLines ==
    {"Failed to insert new message into mong", "Failed to store update for message"}

\* C23: a handler prints a success line ("Stored message", "Stored update for
\* message", "Stored deletion timestamp of message") only when its write
\* succeeded: a step whose write failed prints its failure line and no
\* success line
C23_SuccessOnlyAfterWrite ==
    [][(\E k \in DOMAIN log' : log'[k] \in WriteFailureLines)
         => /\ store' = store
            /\ \A k \in DOMAIN log' : log'[k] \notin SuccessLines]_vars

====
